---- MODULE Spec2Model ----
(***************************************************************************)
(* Thread Viewer (src/main.js, the version with filters, lines 332-843).   *)
(*                                                                         *)
(* The page is a single-threaded event loop: every handler runs to         *)
(* completion, and the only suspension point is the fetch-and-parse of     *)
(* loadThreadData.  The state is the module-level variables of main.js and *)
(* the part of the DOM the handlers read and write.                        *)
(*                                                                         *)
(* Encoding of JavaScript values:                                          *)
(*   - a string is a sequence of one-character strings;                    *)
(*   - undefined (a missing string field) is the sequence Undefined;       *)
(*   - null / a missing object is the empty sequence Null, a present one   *)
(*     is the one-element sequence Some(x);                                *)
(*   - an instant (a Date) is [s, ms]: whole seconds since 1970-01-01 UTC  *)
(*     and the milliseconds within the second.                             *)
(***************************************************************************)
EXTENDS Integers, Sequences, FiniteSets, TLC

VARIABLES
    loadState,          \* position of loadThreadData: "fetching", "resolved", "rejected"
    allThreads,         \* let allThreads
    currentThread,      \* let currentThread (Null or Some(thread))
    uniqueKeywords,     \* let uniqueKeywords (a Set)
    activeFilters,      \* let activeFilters {keywords, startDate, endDate}
    loadingHidden,      \* #loading has class hidden
    threadsHidden,      \* #threads has class hidden
    threadDetailHidden, \* #threadDetail has class hidden
    noResultsHidden,    \* #noResults has class hidden
    filterPanelHidden,  \* #filterPanel has class hidden
    filterToggleActive, \* #filterToggleBtn aria-expanded / class active
    errorMessage,       \* a .error-message element is in <main>
    cards,              \* children of #threads: the threads the cards were made from
    threadContent,      \* children of #threadContent: Null or Some(thread shown)
    chips,              \* .keyword-chip elements of #keywordFilters (their data-keyword)
    selectedChips,      \* the chips with class selected
    searchInput,        \* #searchInput value
    startDateInput,     \* #startDate value: Null or Some(calendar date)
    endDateInput,       \* #endDate value: Null or Some(calendar date)
    tz,                 \* the runtime's local zone: local time minus UTC, in seconds
    lastRender          \* history: the handler that last rendered the list, and how it ended

vars == <<loadState, allThreads, currentThread, uniqueKeywords, activeFilters,
          loadingHidden, threadsHidden, threadDetailHidden, noResultsHidden,
          filterPanelHidden, filterToggleActive, errorMessage, cards,
          threadContent, chips, selectedChips, searchInput, startDateInput,
          endDateInput, tz, lastRender>>

----------------------------------------------------------------------------
(* JavaScript values *)

Null == <<>>

Some(x) == <<x>>

Undefined == <<"undefined">>

\* Length of the longest collection the data source delivers in the model.
MaxThreads == 2

----------------------------------------------------------------------------
(* String.prototype.toLowerCase, trim, includes *)

LowerChar(c) ==
    CASE c = "A" -> "a"
      [] c = "B" -> "b"
      [] c = "K" -> "k"
      [] OTHER -> c

toLowerCase(str) == [i \in 1..Len(str) |-> LowerChar(str[i])]

IsWhitespace(c) == c = " "

RECURSIVE trimStart(_)
trimStart(str) ==
    IF str # <<>> /\ IsWhitespace(Head(str)) THEN trimStart(Tail(str)) ELSE str

RECURSIVE trimEnd(_)
trimEnd(str) ==
    IF str # <<>> /\ IsWhitespace(str[Len(str)])
    THEN trimEnd(SubSeq(str, 1, Len(str) - 1))
    ELSE str

trim(str) == trimEnd(trimStart(str))

includes(str, part) ==
    \E i \in 0..(Len(str) - Len(part)) : SubSeq(str, i + 1, i + Len(part)) = part

----------------------------------------------------------------------------
(* Dates: new Date(y, m, d, h, mi, s), valueAsDate, setHours *)

SecondsPerDay == 86400

\* ECMAScript DayFromYear: days from 1970-01-01 to January 1st of year y.
DayFromYear(y) ==
    365 * (y - 1970) + ((y - 1969) \div 4) - ((y - 1901) \div 100)
        + ((y - 1601) \div 400)

IsLeapYear(y) == (y % 4 = 0) /\ ((y % 100 # 0) \/ (y % 400 = 0))

\* Days of the year before month m0 (0-indexed).
DaysBeforeMonth(y, m0) ==
    LET table == <<0, 31, 59, 90, 120, 151, 181, 212, 243, 273, 304, 334>>
    IN table[m0 + 1] + (IF m0 >= 2 /\ IsLeapYear(y) THEN 1 ELSE 0)

\* ECMAScript MakeDay: month and day overflow carry over arithmetically.
MakeDay(y, m0, d) ==
    LET ym == y + (m0 \div 12)
        mn == m0 % 12
    IN DayFromYear(ym) + DaysBeforeMonth(ym, mn) + d - 1

\* new Date(year, monthIndex, day, hours, minutes, seconds): the fields are
\* local time; a year of 0..99 means 1900 + year.
NewDate(y, m0, d, h, mi, s) ==
    LET yr == IF y >= 0 /\ y <= 99 THEN 1900 + y ELSE y
    IN [s |-> MakeDay(yr, m0, d) * SecondsPerDay + h * 3600 + mi * 60 + s - tz,
        ms |-> 0]

\* a <= b on instants (Date comparison by time value).
InstantLE(a, b) == a.s < b.s \/ (a.s = b.s /\ a.ms <= b.ms)

\* input.valueAsDate of a date input: Null when empty, else midnight UTC of
\* the chosen calendar date.
valueAsDate(input) ==
    IF input = Null THEN Null
    ELSE Some([s |-> MakeDay(input[1].y, input[1].mo - 1, input[1].d) * SecondsPerDay,
               ms |-> 0])

\* date.setHours(23, 59, 59, 999): the end of the date's local day.
setHoursEndOfDay(date) ==
    LET local == date.s + tz
        dayStart == (local \div SecondsPerDay) * SecondsPerDay
    IN [s |-> dayStart + 23 * 3600 + 59 * 60 + 59 - tz, ms |-> 999]

----------------------------------------------------------------------------
(* The data source: threads and replies of data.json *)

\* reply.time values: absent, a string the pattern does not match, or the
\* string "<y>年<mo>月<d>日 <h>:<mi>:<s>".
NoTime == [kind |-> "undefined", y |-> 0, mo |-> 0, d |-> 0, h |-> 0, mi |-> 0, s |-> 0]

GarbageTime == [kind |-> "text", y |-> 0, mo |-> 0, d |-> 0, h |-> 0, mi |-> 0, s |-> 0]

Stamp(y, mo, d, h, mi, s) ==
    [kind |-> "stamp", y |-> y, mo |-> mo, d |-> d, h |-> h, mi |-> mi, s |-> s]

\* A reply object; isNull marks a JSON null in the replies array.
Reply(user, time, text) == [isNull |-> FALSE, user |-> user, time |-> time, reply |-> text]

NullReply == [isNull |-> TRUE, user |-> Undefined, time |-> NoTime, reply |-> Undefined]

\* A thread object; replies is Null when the field is absent, else Some(array).
Thread(n, title, keyword, username, replies) ==
    [thread_number |-> n, post_title |-> title, keyword |-> keyword,
     username |-> username, replies |-> replies]

ThreadNoReplies ==
    Thread("1", <<"B", "a">>, <<"k">>, <<"u">>, Some(<<>>))

ThreadRepliesAbsent ==
    Thread("2", <<"x">>, <<"K">>, <<"a">>, Null)

ThreadMay20 ==
    Thread("3", <<"x">>, <<"K">>, <<"u">>,
           Some(<<Reply(<<"A", "b">>, Stamp(2024, 5, 20, 12, 0, 0), <<"x">>)>>))

ThreadMay7 ==
    Thread("4", <<"x">>, <<"k", "b">>, <<"u">>,
           Some(<<Reply(<<"u">>, NoTime, <<"x">>),
                  Reply(<<"u">>, Stamp(2024, 5, 7, 21, 24, 39), <<"x", "A">>)>>))

ThreadGarbageTime ==
    Thread("5", <<"x">>, <<"k">>, <<"u">>,
           Some(<<Reply(Undefined, GarbageTime, <<"x">>)>>))

\* A thread whose replies array holds a JSON null.
ThreadNullReply ==
    Thread("6", <<"x">>, <<"k">>, <<"u">>, Some(<<NullReply>>))

\* Threads of a payload that lacks a field: no post_title, no keyword, no
\* username, and a replies array whose second element is a JSON null.
ThreadNoTitle ==
    Thread("7", Undefined, <<"k">>, <<"u">>, Some(<<>>))

ThreadNoKeyword ==
    Thread("8", <<"B", "a">>, Undefined, <<"u">>, Some(<<>>))

ThreadNoUsername ==
    Thread("9", <<"x">>, <<"k">>, Undefined, Some(<<>>))

ThreadNullSecondReply ==
    Thread("10", <<"x">>, <<"k">>, <<"u">>,
           Some(<<Reply(<<"u">>, Stamp(2024, 5, 20, 12, 0, 0), <<"x">>), NullReply>>))

\* Threads with one reply at the edges of May 2024: the first second of
\* May 1st, the last second of May 31st, the evening of April 30th and the
\* first second of June 1st.
ThreadStartMidnight ==
    Thread("11", <<"x">>, <<"k">>, <<"u">>,
           Some(<<Reply(<<"u">>, Stamp(2024, 5, 1, 0, 0, 0), <<"x">>)>>))

ThreadEndLastSecond ==
    Thread("12", <<"x">>, <<"k">>, <<"u">>,
           Some(<<Reply(<<"u">>, Stamp(2024, 5, 31, 23, 59, 59), <<"x">>)>>))

ThreadDayBefore ==
    Thread("13", <<"x">>, <<"k">>, <<"u">>,
           Some(<<Reply(<<"u">>, Stamp(2024, 4, 30, 20, 0, 0), <<"x">>)>>))

ThreadDayAfter ==
    Thread("14", <<"x">>, <<"k">>, <<"u">>,
           Some(<<Reply(<<"u">>, Stamp(2024, 6, 1, 0, 0, 0), <<"x">>)>>))

\* Threads that follow the documented data format.
WellFormedThreads ==
    {ThreadNoReplies, ThreadRepliesAbsent, ThreadMay20, ThreadMay7, ThreadGarbageTime}

SeqsUpTo(S, n) == UNION {[1..k -> S] : k \in 0..n}

\* What the user types into the search box.
SearchTerms == {<<>>, <<"b">>, <<" ", "A">>, <<"a", "b">>, <<"z">>}

\* What the user picks in the date inputs.
Date(y, mo, d) == [y |-> y, mo |-> mo, d |-> d]

\* The date ranges the user picks: none, May 2024, an open-ended one, and
\* the default of initializeFilters left untouched.
DateRanges ==
    {[start |-> Null, end |-> Null],
     [start |-> Some(Date(2024, 5, 1)), end |-> Some(Date(2024, 5, 31))],
     [start |-> Some(Date(2024, 5, 1)), end |-> Null],
     [start |-> Some(Date(2024, 5, 15)), end |-> Some(Date(2024, 6, 15))]}

\* new Date() in initializeFilters, and the same day one month earlier.
Today == Date(2024, 6, 15)

LastMonth == Date(2024, 5, 15)

\* Local zones of the runtime: UTC-5, UTC, UTC+8.
TimeZones == {0 - 18000, 0, 28800}

----------------------------------------------------------------------------
(* filterThreads *)

\* Array.prototype.some over a callback that may throw: the first element
\* for which the callback returns true or throws decides.
some(arr, CbThrows(_), CbTrue(_)) ==
    LET deciding == {i \in 1..Len(arr) : CbThrows(arr[i]) \/ CbTrue(arr[i])}
    IN IF deciding = {} THEN "false"
       ELSE LET first == CHOOSE i \in deciding : \A j \in deciding : i <= j
            IN IF CbThrows(arr[first]) THEN "throw" ELSE "true"

\* The characters of a timestamp besides digits, whitespace and ":".
Nian == "nian"  \* U+5E74

Yue == "yue"    \* U+6708

Ri == "ri"      \* U+65E5

IsDigit(c) == c \in {"0", "1", "2", "3", "4", "5", "6", "7", "8", "9"}

DigitValue(c) ==
    CASE c = "0" -> 0 [] c = "1" -> 1 [] c = "2" -> 2 [] c = "3" -> 3
      [] c = "4" -> 4 [] c = "5" -> 5 [] c = "6" -> 6 [] c = "7" -> 7
      [] c = "8" -> 8 [] c = "9" -> 9

\* parseInt on a string of digits.
RECURSIVE parseInt(_)
parseInt(str) ==
    IF str = <<>> THEN 0
    ELSE parseInt(SubSeq(str, 1, Len(str) - 1)) * 10 + DigitValue(str[Len(str)])

\* str holds len digits from position from on.
DigitsAt(str, from, len) ==
    /\ from + len - 1 <= Len(str)
    /\ \A k \in from..(from + len - 1) : IsDigit(str[k])

CharAt(str, pos, c) == pos <= Len(str) /\ str[pos] = c

WhitespaceAt(str, from, len) ==
    /\ from + len - 1 <= Len(str)
    /\ \A k \in from..(from + len - 1) : IsWhitespace(str[k])

\* The ways the pattern of line 701 can lie in str: the position of the year
\* and the lengths of the month, day, whitespace, hour, minute and second.
PatternMatches(str) ==
    UNION {UNION {UNION {UNION {UNION {UNION {
        {[i |-> i, mo |-> mo, d |-> d, w |-> w, h |-> h, mi |-> mi, s |-> s] :
            s \in {k \in 1..2 :
                     DigitsAt(str, i + 5 + mo + 1 + d + 1 + w + h + 1 + mi + 1, k)}} :
            mi \in {k \in 1..2 :
                      /\ DigitsAt(str, i + 5 + mo + 1 + d + 1 + w + h + 1, k)
                      /\ CharAt(str, i + 5 + mo + 1 + d + 1 + w + h + 1 + k, ":")}} :
            h \in {k \in 1..2 :
                     /\ DigitsAt(str, i + 5 + mo + 1 + d + 1 + w, k)
                     /\ CharAt(str, i + 5 + mo + 1 + d + 1 + w + k, ":")}} :
            w \in {k \in 1..Len(str) : WhitespaceAt(str, i + 5 + mo + 1 + d + 1, k)}} :
            d \in {k \in 1..2 :
                     /\ DigitsAt(str, i + 5 + mo + 1, k)
                     /\ CharAt(str, i + 5 + mo + 1 + k, Ri)}} :
            mo \in {k \in 1..2 :
                      /\ DigitsAt(str, i + 5, k)
                      /\ CharAt(str, i + 5 + k, Yue)}} :
            i \in {k \in 1..Len(str) :
                     DigitsAt(str, k, 4) /\ CharAt(str, k + 4, Nian)}}

\* Match a comes before match b: it starts further left, or starts at the
\* same place and an earlier quantifier takes more.
Before(a, b) ==
    LET Weight(m) == <<0 - m.i, m.mo, m.d, m.w, m.h, m.mi, m.s>>
    IN \E k \in 1..7 : /\ \A j \in 1..(k - 1) : Weight(a)[j] = Weight(b)[j]
                       /\ Weight(a)[k] > Weight(b)[k]

\* The six captured groups of a match m of str.
Groups(str, m) ==
    LET pMo == m.i + 5
        pD == pMo + m.mo + 1
        pH == pD + m.d + 1 + m.w
        pMi == pH + m.h + 1
        pS == pMi + m.mi + 1
    IN <<SubSeq(str, m.i, m.i + 3),
         SubSeq(str, pMo, pMo + m.mo - 1),
         SubSeq(str, pD, pD + m.d - 1),
         SubSeq(str, pH, pH + m.h - 1),
         SubSeq(str, pMi, pMi + m.mi - 1),
         SubSeq(str, pS, pS + m.s - 1)>>

\* reply.time.match(pattern): Null, or Some of the six captured groups of the
\* leftmost match, each quantifier taking as much as it can.
match(str) ==
    LET found == UNION {{Groups(str, a) : a \in {c \in all : \A b \in all \ {c} : Before(c, b)}} :
                           all \in {PatternMatches(str)}}
    IN IF found = {} THEN Null ELSE Some(CHOOSE groups \in found : TRUE)

\* A reply.time given as a string of characters.
TimeText(text) == [kind |-> "string", text |-> text]

\* The reply timestamp parser (lines 698-712): Null when the callback
\* returns false before building a Date, else Some(replyDate). A time is
\* absent, a string known not to match, the six fields of a matching string,
\* or a string of characters.
ParseReplyTime(time) ==
    IF time.kind = "string"
    THEN CHOOSE replyDate \in
             {IF dateParts = Null THEN Null
              ELSE Some(NewDate(parseInt(dateParts[1][1]),
                                parseInt(dateParts[1][2]) - 1,
                                parseInt(dateParts[1][3]),
                                parseInt(dateParts[1][4]),
                                parseInt(dateParts[1][5]),
                                parseInt(dateParts[1][6])))
                 : dateParts \in {match(time.text)}} : TRUE
    ELSE IF time.kind # "stamp" THEN Null
    ELSE Some(NewDate(time.y, time.mo - 1, time.d, time.h, time.mi, time.s))

\* matchesSearch comparing the fields as they are, without toLowerCase.
MatchesSearchCaseSensitive(thread, searchTerm) ==
    LET ReplyThrows(reply) == reply.isNull \/ reply.reply = Undefined
        ReplyMatches(reply) ==
            \/ includes(reply.reply, searchTerm)
            \/ /\ reply.user # Undefined
               /\ reply.user # <<>>
               /\ includes(reply.user, searchTerm)
    IN IF thread.post_title = Undefined THEN "throw"
       ELSE IF includes(thread.post_title, searchTerm) THEN "true"
       ELSE IF thread.keyword = Undefined THEN "throw"
       ELSE IF includes(thread.keyword, searchTerm) THEN "true"
       ELSE IF thread.username = Undefined THEN "throw"
       ELSE IF includes(thread.username, searchTerm) THEN "true"
       ELSE IF thread.replies = Null THEN "false"
       ELSE some(thread.replies[1], ReplyThrows, ReplyMatches)

\* The matchesSearch expression (lines 677-684) for a non-empty term:
\* "true", "false", or "throw" (a TypeError on a missing field).
MatchesSearch(thread, searchTerm) ==
    LET ReplyThrows(reply) == reply.isNull \/ reply.reply = Undefined
        ReplyMatches(reply) ==
            \/ includes(toLowerCase(reply.reply), searchTerm)
            \/ /\ reply.user # Undefined
               /\ reply.user # <<>>
               /\ includes(toLowerCase(reply.user), searchTerm)
    IN IF thread.post_title = Undefined THEN "throw"
       ELSE IF includes(toLowerCase(thread.post_title), searchTerm) THEN "true"
       ELSE IF thread.keyword = Undefined THEN "throw"
       ELSE IF includes(toLowerCase(thread.keyword), searchTerm) THEN "true"
       ELSE IF thread.username = Undefined THEN "throw"
       ELSE IF includes(toLowerCase(thread.username), searchTerm) THEN "true"
       ELSE IF thread.replies = Null THEN "false"
       ELSE some(thread.replies[1], ReplyThrows, ReplyMatches)

\* The keyword test without its length guard: nothing selected rejects all.
KeywordRejectsWhenNoneSelected(thread, filters) ==
    thread.keyword \notin filters.keywords

\* The keyword test comparing keywords without regard to case.
KeywordRejectsIgnoringCase(thread, filters) ==
    /\ filters.keywords # {}
    /\ toLowerCase(thread.keyword) \notin {toLowerCase(k) : k \in filters.keywords}

\* The keyword test of line 690: TRUE when the thread is rejected.
KeywordRejects(thread, filters) ==
    filters.keywords # {} /\ thread.keyword \notin filters.keywords

\* The guard of line 695: the date test runs.
DateTestRuns(thread, filters) ==
    /\ filters.startDate # Null
    /\ filters.endDate # Null
    /\ thread.replies # Null
    /\ Len(thread.replies[1]) > 0

\* hasReplyInDateRange counting a reply whose time does not parse as a match.
HasReplyInDateRangeLenient(thread, filters) ==
    LET ReplyThrows(reply) == reply.isNull
        ReplyInRange(reply) ==
            \/ ParseReplyTime(reply.time) = Null
            \/ /\ InstantLE(filters.startDate[1], ParseReplyTime(reply.time)[1])
               /\ InstantLE(ParseReplyTime(reply.time)[1], filters.endDate[1])
    IN some(thread.replies[1], ReplyThrows, ReplyInRange)

\* hasReplyInDateRange (lines 697-715): "true", "false" or "throw".
HasReplyInDateRange(thread, filters) ==
    LET ReplyThrows(reply) == reply.isNull
        ReplyInRange(reply) ==
            /\ reply.time.kind # "undefined"
            /\ ParseReplyTime(reply.time) # Null
            /\ InstantLE(filters.startDate[1], ParseReplyTime(reply.time)[1])
            /\ InstantLE(ParseReplyTime(reply.time)[1], filters.endDate[1])
    IN some(thread.replies[1], ReplyThrows, ReplyInRange)

\* The callback rejecting a thread without replies when a date range is set.
FilterCallbackRejectingNoReplies(thread, searchTerm, filters) ==
    LET search == IF searchTerm # <<>> THEN MatchesSearch(thread, searchTerm) ELSE "true"
    IN IF search # "true" THEN search
       ELSE IF KeywordRejects(thread, filters) THEN "false"
       ELSE IF filters.startDate # Null /\ filters.endDate # Null
            THEN IF DateTestRuns(thread, filters)
                 THEN HasReplyInDateRange(thread, filters)
                 ELSE "false"
            ELSE "true"

\* The callback accepting a thread as soon as a non-empty search term matches.
FilterCallbackAnyCriterion(thread, searchTerm, filters) ==
    IF searchTerm # <<>> /\ MatchesSearch(thread, searchTerm) = "true" THEN "true"
    ELSE IF searchTerm # <<>> THEN MatchesSearch(thread, searchTerm)
    ELSE IF KeywordRejects(thread, filters) THEN "false"
    ELSE IF DateTestRuns(thread, filters)
         THEN HasReplyInDateRange(thread, filters)
         ELSE "true"

\* The filter callback (lines 674-722) on one thread: "true", "false", "throw".
FilterCallback(thread, searchTerm, filters) ==
    LET search == IF searchTerm # <<>> THEN MatchesSearch(thread, searchTerm) ELSE "true"
    IN IF search # "true" THEN search
       ELSE IF KeywordRejects(thread, filters) THEN "false"
       ELSE IF DateTestRuns(thread, filters)
            THEN HasReplyInDateRange(thread, filters)
            ELSE "true"

\* filterThreads throws: the callback throws on some thread.
FilterThrows(threads, searchTerm, filters) ==
    \E i \in 1..Len(threads) : FilterCallback(threads[i], searchTerm, filters) = "throw"

\* filterThreads returning the kept threads last to first.
filterThreadsReversed(threads, searchTerm, filters) ==
    LET Keep(thread) == FilterCallback(thread, searchTerm, filters) = "true"
        kept == SelectSeq(threads, Keep)
    IN [i \in 1..Len(kept) |-> kept[Len(kept) + 1 - i]]

\* filterThreads(searchTerm): allThreads.filter(callback).
filterThreads(threads, searchTerm, filters) ==
    LET Keep(thread) == FilterCallback(thread, searchTerm, filters) = "true"
    IN SelectSeq(threads, Keep)

----------------------------------------------------------------------------
(* Rendering: the part of the DOM the view functions write *)

\* The current values of what renderThreads and its callees read and write.
View ==
    [threadsHidden |-> threadsHidden, threadDetailHidden |-> threadDetailHidden,
     noResultsHidden |-> noResultsHidden, cards |-> cards,
     currentThread |-> currentThread]

showNoResults(v) == [v EXCEPT !.noResultsHidden = FALSE, !.threadsHidden = TRUE]

hideNoResults(v) == [v EXCEPT !.noResultsHidden = TRUE]

\* showThreadsView leaving #threadDetail as it is.
showThreadsViewKeepingDetail(v, all) ==
    LET shown == [v EXCEPT !.threadsHidden = FALSE]
        results == IF Len(all) = 0 THEN showNoResults(shown) ELSE hideNoResults(shown)
    IN [results EXCEPT !.currentThread = Null]

\* showThreadsView; all is the value of allThreads when it runs.
showThreadsView(v, all) ==
    LET shown == [v EXCEPT !.threadDetailHidden = TRUE, !.threadsHidden = FALSE]
        results == IF Len(all) = 0 THEN showNoResults(shown) ELSE hideNoResults(shown)
    IN [results EXCEPT !.currentThread = Null]

\* createThreadCard throws a TypeError: thread.replies[0] is null (line 538).
CardThrows(thread) ==
    /\ thread.replies # Null
    /\ Len(thread.replies[1]) > 0
    /\ thread.replies[1][1].isNull

RenderThrows(threads) == \E i \in 1..Len(threads) : CardThrows(threads[i])

\* The cards appended by the forEach of renderThreads before it ends or throws.
RenderedCards(threads) ==
    LET bad == {i \in 1..Len(threads) : CardThrows(threads[i])}
    IN IF bad = {} THEN threads
       ELSE SubSeq(threads, 1, (CHOOSE i \in bad : \A j \in bad : i <= j) - 1)

\* renderThreads appending the new cards to the ones already in #threads.
renderThreadsAppending(threads, v, all) ==
    LET filled == [hideNoResults(v) EXCEPT !.cards = v.cards \o RenderedCards(threads)]
    IN IF Len(threads) = 0 THEN [view |-> showNoResults(v), threw |-> FALSE]
       ELSE IF RenderThrows(threads) THEN [view |-> filled, threw |-> TRUE]
       ELSE [view |-> showThreadsView(filled, all), threw |-> FALSE]

\* renderThreads returning on an empty array without showing #noResults.
renderThreadsWithoutEmptyMessage(threads, v, all) ==
    LET cleared == [v EXCEPT !.cards = <<>>]
        filled == [hideNoResults(cleared) EXCEPT !.cards = RenderedCards(threads)]
    IN IF Len(threads) = 0 THEN [view |-> cleared, threw |-> FALSE]
       ELSE IF RenderThrows(threads) THEN [view |-> filled, threw |-> TRUE]
       ELSE [view |-> showThreadsView(filled, all), threw |-> FALSE]

\* renderThreads(threads): the view it leaves, and whether it threw.
renderThreads(threads, v, all) ==
    LET cleared == [v EXCEPT !.cards = <<>>]
        filled == [hideNoResults(cleared) EXCEPT !.cards = RenderedCards(threads)]
    IN IF Len(threads) = 0 THEN [view |-> showNoResults(cleared), threw |-> FALSE]
       ELSE IF RenderThrows(threads) THEN [view |-> filled, threw |-> TRUE]
       ELSE [view |-> showThreadsView(filled, all), threw |-> FALSE]

\* The searchTerm of performSearch (line 655).
SearchTermOf(input) == toLowerCase(trim(input))

\* performSearch: the view it leaves, and whether it threw.
performSearch(v, all, filters, input) ==
    LET searchTerm == SearchTermOf(input)
        filteredThreads == filterThreads(all, searchTerm, filters)
        rendered == renderThreads(filteredThreads, v, all)
    IN IF FilterThrows(all, searchTerm, filters) THEN [view |-> v, threw |-> TRUE]
       ELSE IF rendered.threw THEN rendered
       ELSE IF Len(filteredThreads) = 0
            THEN [view |-> showNoResults(rendered.view), threw |-> FALSE]
            ELSE rendered

\* Writes a view back to the DOM and currentThread.
SetView(v) ==
    /\ threadsHidden' = v.threadsHidden
    /\ threadDetailHidden' = v.threadDetailHidden
    /\ noResultsHidden' = v.noResultsHidden
    /\ cards' = v.cards
    /\ currentThread' = v.currentThread

\* toggleFilterPanel.
toggleFilterPanel ==
    /\ filterPanelHidden' = ~filterPanelHidden
    /\ filterToggleActive' = filterPanelHidden

\* extractUniqueKeywords on the loaded data.
extractUniqueKeywords(data) ==
    {data[i].keyword : i \in {j \in 1..Len(data) :
                                data[j].keyword # Undefined /\ data[j].keyword # <<>>}}

EmptyFilters == [keywords |-> {}, startDate |-> Null, endDate |-> Null]

\* A value of lastRender: the handler that last set out to render the list
\* ("none", "load", "search", "apply", "reset"), the searchTerm it filtered
\* with (Null when it rendered allThreads as is), and whether it threw.
Rendered(by, term, threw) == [by |-> by, term |-> term, threw |-> threw]

----------------------------------------------------------------------------
(* Where the user can click (index.html is not part of the sources) *)

\* The filter controls (chips, date inputs, Apply, Reset) sit in #filterPanel:
\* applyFilters closes the panel it was clicked in (lines 768-769).
FilterControlsClickable == ~filterPanelHidden

\* The View buttons are in the cards of #threads.
CardsClickable == ~threadsHidden

\* The Back button is part of the detail view.
BackButtonClickable == ~threadDetailHidden

----------------------------------------------------------------------------
(* Startup *)

\* The state once the DOMContentLoaded handler has returned: showLoading has
\* run, the fetch is in flight, the listeners are installed.
Init ==
    /\ loadState = "fetching"
    /\ allThreads = <<>>
    /\ currentThread = Null
    /\ uniqueKeywords = {}
    /\ activeFilters = EmptyFilters
    /\ loadingHidden = FALSE
    /\ threadsHidden = TRUE
    /\ threadDetailHidden = TRUE
    /\ noResultsHidden = TRUE
    /\ filterPanelHidden = TRUE
    /\ filterToggleActive = FALSE
    /\ errorMessage = FALSE
    /\ cards = <<>>
    /\ threadContent = Null
    /\ chips = {}
    /\ selectedChips = {}
    /\ searchInput = <<>>
    /\ startDateInput = Null
    /\ endDateInput = Null
    /\ tz \in TimeZones
    /\ lastRender = Rendered("none", Null, FALSE)

----------------------------------------------------------------------------
(* loadThreadData after the await *)

\* A failure handler that shows the error and fetches again.
LoadFailedThenRetry(kind) ==
    /\ loadState = "fetching"
    /\ kind \in {"network", "status", "parse"}
    /\ loadState' = "fetching"
    /\ errorMessage' = TRUE
    /\ loadingHidden' = TRUE
    /\ UNCHANGED <<allThreads, currentThread, uniqueKeywords, activeFilters,
                   threadsHidden, threadDetailHidden, noResultsHidden,
                   filterPanelHidden, filterToggleActive, cards, threadContent,
                   chips, selectedChips, searchInput, startDateInput,
                   endDateInput, tz, lastRender>>

\* A failure handler without the finally block: #loading stays visible.
LoadFailedLeavingLoading(kind) ==
    /\ loadState = "fetching"
    /\ kind \in {"network", "status", "parse"}
    /\ loadState' = "rejected"
    /\ errorMessage' = TRUE
    /\ UNCHANGED <<allThreads, currentThread, uniqueKeywords, activeFilters,
                   loadingHidden, threadsHidden, threadDetailHidden, noResultsHidden,
                   filterPanelHidden, filterToggleActive, cards, threadContent,
                   chips, selectedChips, searchInput, startDateInput,
                   endDateInput, tz, lastRender>>

\* The fetch rejects, the response is not ok, or response.json() rejects:
\* the catch block runs showError, the finally block hideLoading.
LoadFailed(kind) ==
    /\ loadState = "fetching"
    /\ kind \in {"network", "status", "parse"}
    /\ loadState' = "rejected"
    /\ errorMessage' = TRUE
    /\ loadingHidden' = TRUE
    /\ UNCHANGED <<allThreads, currentThread, uniqueKeywords, activeFilters,
                   threadsHidden, threadDetailHidden, noResultsHidden,
                   filterPanelHidden, filterToggleActive, cards, threadContent,
                   chips, selectedChips, searchInput, startDateInput,
                   endDateInput, tz, lastRender>>

\* response.json() resolves with data: lines 398-407, then catch and finally.
LoadProcessed(data) ==
    LET rendered == renderThreads(data, View, data)
    IN /\ loadState = "fetching"
       /\ allThreads' = data
       /\ uniqueKeywords' = extractUniqueKeywords(data)
       /\ chips' = extractUniqueKeywords(data)
       /\ selectedChips' = {}
       /\ startDateInput' = Some(LastMonth)
       /\ endDateInput' = Some(Today)
       /\ SetView(rendered.view)
       /\ errorMessage' = (errorMessage \/ rendered.threw)
       /\ loadState' = IF rendered.threw THEN "rejected" ELSE "resolved"
       /\ loadingHidden' = TRUE
       /\ lastRender' = Rendered("load", Null, rendered.threw)
       /\ UNCHANGED <<activeFilters, filterPanelHidden, filterToggleActive,
                      threadContent, searchInput, tz>>

----------------------------------------------------------------------------
(* User events *)

\* performSearch as an event handler: the user has typed text in the box.
RunSearch(text) ==
    LET done == performSearch(View, allThreads, activeFilters, text)
    IN /\ searchInput' = text
       /\ SetView(done.view)
       /\ lastRender' = Rendered("search", Some(SearchTermOf(text)), done.threw)
       /\ UNCHANGED <<loadState, allThreads, uniqueKeywords, activeFilters,
                      loadingHidden, filterPanelHidden, filterToggleActive,
                      errorMessage, threadContent, chips, selectedChips,
                      startDateInput, endDateInput, tz>>

\* The user types text and clicks #searchButton.
SearchClick(text) == RunSearch(text)

\* The user types text and releases Enter in #searchInput.
SearchEnter(text) == RunSearch(text)

\* Click on #filterToggleBtn.
FilterToggleClick ==
    /\ toggleFilterPanel
    /\ UNCHANGED <<loadState, allThreads, currentThread, uniqueKeywords,
                   activeFilters, loadingHidden, threadsHidden, threadDetailHidden,
                   noResultsHidden, errorMessage, cards, threadContent, chips,
                   selectedChips, searchInput, startDateInput, endDateInput, tz,
                   lastRender>>

\* The activeFilters object applyFilters builds (lines 746-763).
FiltersFromControls(selected, startInput, endInput) ==
    [keywords |-> selected,
     startDate |-> valueAsDate(startInput),
     endDate |-> IF valueAsDate(endInput) = Null THEN Null
                 ELSE Some(setHoursEndOfDay(valueAsDate(endInput)[1]))]

\* The user types text, clicks chips until selection is selected, sets the
\* date inputs to range and clicks #applyFiltersBtn.
ApplyClick(text, selection, range) ==
    LET filters == FiltersFromControls(selection, range.start, range.end)
        done == performSearch(View, allThreads, filters, text)
    IN /\ FilterControlsClickable
       /\ selection \subseteq chips
       /\ searchInput' = text
       /\ selectedChips' = selection
       /\ startDateInput' = range.start
       /\ endDateInput' = range.end
       /\ activeFilters' = filters
       /\ SetView(done.view)
       /\ IF done.threw
          THEN UNCHANGED <<filterPanelHidden, filterToggleActive>>
          ELSE toggleFilterPanel
       /\ lastRender' = Rendered("apply", Some(SearchTermOf(text)), done.threw)
       /\ UNCHANGED <<loadState, allThreads, uniqueKeywords, loadingHidden,
                      errorMessage, threadContent, chips, tz>>

\* Click on #resetFiltersBtn.
ResetClick ==
    LET rendered == renderThreads(allThreads, View, allThreads)
    IN /\ FilterControlsClickable
       /\ selectedChips' = {}
       /\ startDateInput' = Null
       /\ endDateInput' = Null
       /\ activeFilters' = EmptyFilters
       /\ SetView(rendered.view)
       /\ lastRender' = Rendered("reset", Null, rendered.threw)
       /\ UNCHANGED <<loadState, allThreads, uniqueKeywords, loadingHidden,
                      filterPanelHidden, filterToggleActive, errorMessage,
                      threadContent, chips, searchInput, tz>>

\* showThreadDetail throws a TypeError in createReplyElement: a null reply.
DetailThrows(thread) ==
    /\ thread.replies # Null
    /\ \E i \in 1..Len(thread.replies[1]) : thread.replies[1][i].isNull

\* Click on the View button of the i-th card: showThreadDetail(thread).
SelectThread(i) ==
    /\ CardsClickable
    /\ i \in 1..Len(cards)
    /\ currentThread' = Some(cards[i])
    /\ threadContent' = Some(cards[i])
    /\ IF DetailThrows(cards[i])
       THEN UNCHANGED <<threadsHidden, noResultsHidden, threadDetailHidden>>
       ELSE /\ threadsHidden' = TRUE
            /\ noResultsHidden' = TRUE
            /\ threadDetailHidden' = FALSE
    /\ UNCHANGED <<loadState, allThreads, uniqueKeywords, activeFilters,
                   loadingHidden, filterPanelHidden, filterToggleActive,
                   errorMessage, cards, chips, selectedChips, searchInput,
                   startDateInput, endDateInput, tz, lastRender>>

\* A Back click that renders the whole collection again.
BackClickShowingAll ==
    /\ BackButtonClickable
    /\ SetView([showThreadsView(View, allThreads) EXCEPT !.cards = allThreads])
    /\ UNCHANGED <<loadState, allThreads, uniqueKeywords, activeFilters,
                   loadingHidden, filterPanelHidden, filterToggleActive,
                   errorMessage, threadContent, chips, selectedChips,
                   searchInput, startDateInput, endDateInput, tz, lastRender>>

\* Click on #backButton: showThreadsView.
BackClick ==
    /\ BackButtonClickable
    /\ SetView(showThreadsView(View, allThreads))
    /\ UNCHANGED <<loadState, allThreads, uniqueKeywords, activeFilters,
                   loadingHidden, filterPanelHidden, filterToggleActive,
                   errorMessage, threadContent, chips, selectedChips,
                   searchInput, startDateInput, endDateInput, tz, lastRender>>

\* The branch the Escape keydown handler takes (lines 485-491).
EscapeBranch ==
    IF ~filterPanelHidden THEN "panel"
    ELSE IF ~threadsHidden THEN "threads"
    ELSE "none"

\* keydown of Escape.
EscapeKey ==
    /\ CASE EscapeBranch = "panel" ->
                /\ toggleFilterPanel
                /\ UNCHANGED <<threadsHidden, threadDetailHidden, noResultsHidden,
                               cards, currentThread>>
         [] EscapeBranch = "threads" ->
                /\ SetView(showThreadsView(View, allThreads))
                /\ UNCHANGED <<filterPanelHidden, filterToggleActive>>
         [] OTHER ->
                UNCHANGED <<threadsHidden, threadDetailHidden, noResultsHidden,
                            cards, currentThread, filterPanelHidden,
                            filterToggleActive>>
    /\ UNCHANGED <<loadState, allThreads, uniqueKeywords, activeFilters,
                   loadingHidden, errorMessage, threadContent, chips,
                   selectedChips, searchInput, startDateInput, endDateInput, tz,
                   lastRender>>

----------------------------------------------------------------------------
(* Specifications *)

\* The ways the load can fail before any data is received.
LoadErrors == {"network", "status", "parse"}

\* The payloads of the page session: collections that may hold a malformed thread.
Payloads == SeqsUpTo({ThreadMay20, ThreadNullReply}, MaxThreads)

\* What the user types and picks in the page session.
SessionTerms == {<<>>, <<"a", "b">>, <<"z">>}

SessionRanges ==
    {[start |-> Null, end |-> Null],
     [start |-> Some(Date(2024, 5, 15)), end |-> Some(Date(2024, 6, 15))]}

\* The payloads of the filter study: collections in the documented format.
WellFormedPayloads == SeqsUpTo(WellFormedThreads, MaxThreads)

Next ==
    \/ \E kind \in LoadErrors : LoadFailed(kind)
    \/ \E data \in Payloads : LoadProcessed(data)
    \/ \E text \in SessionTerms : SearchClick(text)
    \/ \E text \in SessionTerms : SearchEnter(text)
    \/ FilterToggleClick
    \/ \E text \in SessionTerms, selection \in SUBSET chips, range \in SessionRanges :
            ApplyClick(text, selection, range)
    \/ ResetClick
    \/ \E i \in 1..Len(cards) : SelectThread(i)
    \/ BackClick
    \/ EscapeKey

\* The whole page session.
Spec == Init /\ [][Next]_vars

\* The filter study: the load succeeds with a well-formed collection, the
\* user opens the filter panel and runs one search or applies one filter.
NextFilter ==
    \/ \E data \in WellFormedPayloads : LoadProcessed(data)
    \/ /\ loadState = "resolved"
       /\ lastRender.by = "load"
       /\ \/ \E text \in SearchTerms : SearchClick(text)
          \/ FilterToggleClick
          \/ \E text \in SearchTerms, selection \in SUBSET chips, range \in DateRanges :
                ApplyClick(text, selection, range)

SpecFilter == Init /\ [][NextFilter]_vars

\* The payloads of the well-formed session: threads with one and with two
\* replies, of different keywords, one inside and one outside the date range
\* of SessionRanges.
SessionThreads == {ThreadMay20, ThreadMay7}

SessionPayloads == SeqsUpTo(SessionThreads, MaxThreads)

\* The page session after a load that delivers a well-formed collection; the
\* user changes the text of the search box only when searching.
NextSession ==
    \/ \E data \in SessionPayloads : LoadProcessed(data)
    \/ \E text \in SessionTerms : SearchClick(text)
    \/ FilterToggleClick
    \/ \E selection \in SUBSET chips, range \in SessionRanges :
            ApplyClick(searchInput, selection, range)
    \/ ResetClick
    \/ \E i \in 1..Len(cards) : SelectThread(i)
    \/ BackClick
    \/ EscapeKey

\* The session is studied in one local zone.
InitSession == Init /\ tz = 28800

SpecSession == InitSession /\ [][NextSession]_vars

\* The payloads of the malformed-record study.
MalformedThreads ==
    {ThreadNoTitle, ThreadNoKeyword, ThreadNoUsername, ThreadNullSecondReply}

MalformedPayloads == SeqsUpTo(MalformedThreads, MaxThreads)

\* What the user searches for in the malformed-record study.
MalformedTerms == {<<>>, <<"b">>, <<"z">>}

\* The page session after a load that delivers records with missing parts:
\* the user searches, opens threads and leaves them.
NextMalformed ==
    \/ \E data \in MalformedPayloads : LoadProcessed(data)
    \/ \E text \in MalformedTerms : SearchClick(text)
    \/ \E i \in 1..Len(cards) : SelectThread(i)
    \/ BackClick
    \/ EscapeKey

SpecMalformed == InitSession /\ [][NextMalformed]_vars

\* The payloads of the date study.
BoundaryThreads ==
    {ThreadStartMidnight, ThreadEndLastSecond, ThreadDayBefore, ThreadDayAfter}

DatePayloads == SeqsUpTo(BoundaryThreads, MaxThreads)

\* The date study: the load succeeds, the user opens the filter panel, picks
\* a date range and applies it once, in any of the local zones.
NextDates ==
    \/ \E data \in DatePayloads : LoadProcessed(data)
    \/ /\ loadState = "resolved"
       /\ lastRender.by = "load"
       /\ \/ FilterToggleClick
          \/ \E selection \in SUBSET chips, range \in DateRanges :
                ApplyClick(<<>>, selection, range)

SpecDates == Init /\ [][NextDates]_vars

\* A decimal digit as a character, and a number in decimal notation.
DigitChar(n) ==
    CASE n = 0 -> "0" [] n = 1 -> "1" [] n = 2 -> "2" [] n = 3 -> "3" [] n = 4 -> "4"
      [] n = 5 -> "5" [] n = 6 -> "6" [] n = 7 -> "7" [] n = 8 -> "8" [] n = 9 -> "9"

RECURSIVE Decimal(_)
Decimal(n) ==
    IF n < 10 THEN <<DigitChar(n)>> ELSE Decimal(n \div 10) \o <<DigitChar(n % 10)>>

\* A number in decimal notation, zero-padded to a width.
Padded(n, width) ==
    LET digits == Decimal(n)
    IN [k \in 1..(width - Len(digits)) |-> "0"] \o digits

\* The reply.time string of data.json for the fields <<y, mo, d, h, mi, s>>,
\* as in "2024<nian>5<yue>7<ri> 21:24:39".
TimeString(f) ==
    Padded(f[1], 4) \o <<Nian>> \o Decimal(f[2]) \o <<Yue>> \o Decimal(f[3]) \o <<Ri, " ">>
        \o Decimal(f[4]) \o <<":">> \o Padded(f[5], 2) \o <<":">> \o Padded(f[6], 2)

\* Fields written in reply.time strings: the documented example, the last
\* second of a year, a day past the end of its month, the first of the next
\* month, and a year below 100.
FieldTuples ==
    {<<2024, 5, 7, 21, 24, 39>>,
     <<2024, 12, 31, 23, 59, 59>>,
     <<2024, 4, 31, 12, 0, 0>>,
     <<2024, 5, 1, 0, 0, 0>>,
     <<50, 1, 1, 0, 0, 0>>}

\* reply.time strings that are not of the documented form: "garbage" and an
\* ISO timestamp.
UnmatchedTexts ==
    {<<"g", "a", "r", "b", "a", "g", "e">>,
     <<"2", "0", "2", "4", "-", "0", "5", "-", "0", "7", " ",
       "2", "1", ":", "2", "4", ":", "3", "9">>}

\* A thread whose only reply carries the given reply.time string.
ParserThread(text) ==
    Thread("15", <<"x">>, <<"k">>, <<"u">>,
           Some(<<Reply(<<"u">>, TimeText(text), <<"x">>)>>))

ParserThreads ==
    {ParserThread(TimeString(f)) : f \in FieldTuples}
        \cup {ParserThread(text) : text \in UnmatchedTexts}

ParserPayloads == SeqsUpTo(ParserThreads, MaxThreads)

\* The parser study: the load succeeds, the user opens the filter panel, picks
\* a date range and applies it once, so that every reply.time is parsed.
NextParser ==
    \/ \E data \in ParserPayloads : LoadProcessed(data)
    \/ /\ loadState = "resolved"
       /\ lastRender.by = "load"
       /\ \/ FilterToggleClick
          \/ \E selection \in SUBSET chips, range \in DateRanges :
                ApplyClick(<<>>, selection, range)

SpecParser == Init /\ [][NextParser]_vars

\* The load study: the fetch may stay pending for ever, fail, or deliver a
\* collection whose rendering may throw, while the user searches, opens and
\* resets the filter panel, opens threads and leaves them.
NextLoad ==
    \/ \E kind \in LoadErrors : LoadFailed(kind)
    \/ \E data \in Payloads : LoadProcessed(data)
    \/ \E text \in MalformedTerms : SearchClick(text)
    \/ FilterToggleClick
    \/ ResetClick
    \/ \E i \in 1..Len(cards) : SelectThread(i)
    \/ BackClick
    \/ EscapeKey

SpecLoad == InitSession /\ [][NextLoad]_vars

----------------------------------------------------------------------------
(* The five views of the page *)

LoadingVisible == ~loadingHidden

ListVisible == ~threadsHidden

DetailVisible == ~threadDetailHidden

EmptyVisible == ~noResultsHidden

ErrorVisible == errorMessage

VisibleViews ==
    {name \in {"Loading", "List", "Detail", "Empty", "Error"} :
        \/ name = "Loading" /\ LoadingVisible
        \/ name = "List" /\ ListVisible
        \/ name = "Detail" /\ DetailVisible
        \/ name = "Empty" /\ EmptyVisible
        \/ name = "Error" /\ ErrorVisible}

----------------------------------------------------------------------------
(* Claims *)

\* C1: in every reachable state exactly one of the five views Loading, List,
\* Detail, Empty, Error is visible: never two at once and never none.
C1_ExactlyOneViewVisible == Cardinality(VisibleViews) = 1

\* C3: while the load is in flight the view is Loading and only Loading,
\* whatever user events are handled before the load resolves.
C3_OnlyLoadingWhileFetching == loadState = "fetching" => VisibleViews = {"Loading"}

\* C4: after a load failure of any kind the view is Error, the thread
\* collection is empty from then on, and no thread card is ever displayed.
C4_FailedLoadShowsNothing ==
    loadState = "rejected" =>
        /\ VisibleViews = {"Error"}
        /\ allThreads = <<>>
        /\ ~(ListVisible /\ cards # <<>>)

\* The view a recomputation must leave: List with the result's cards when the
\* result is non-empty, Empty when it is empty.
ShowsResult(result) ==
    IF result # <<>>
    THEN VisibleViews' = {"List"} /\ cards' = result
    ELSE VisibleViews' = {"Empty"}

\* C5: a search or an apply issued from List, Empty or Detail recomputes the
\* filter result and leaves the view in List when the result is non-empty
\* and in Empty when it is empty; from Detail the detail view is exited.
C5_SearchLeavesListOrEmpty ==
    [][(loadState = "resolved" /\ VisibleViews \in {{"List"}, {"Empty"}, {"Detail"}}) =>
          /\ \A text \in SessionTerms :
                (SearchClick(text) \/ SearchEnter(text)) =>
                    ShowsResult(filterThreads(allThreads, SearchTermOf(text), activeFilters))
          /\ \A text \in SessionTerms, selection \in SUBSET chips, range \in SessionRanges :
                ApplyClick(text, selection, range) =>
                    ShowsResult(filterThreads(allThreads, SearchTermOf(text), activeFilters'))
      ]_vars

\* C6: Escape with the filter panel open closes the panel and leaves the view
\* state unchanged; otherwise, in Detail, Escape makes the view List and
\* clears the selected thread.
C6_EscapeIsContextual ==
    /\ ~filterPanelHidden =>
          ENABLED (EscapeKey /\ filterPanelHidden' /\ VisibleViews' = VisibleViews)
    /\ (filterPanelHidden /\ VisibleViews = {"Detail"}) =>
          ENABLED (EscapeKey /\ VisibleViews' = {"List"} /\ currentThread' = Null)

\* C7: after a successful load, whenever List is visible the displayed cards
\* are non-empty, and whenever the most recently computed filter result is
\* empty the view is Empty.
C7_ListNeverEmpty ==
    loadState = "resolved" =>
        /\ ListVisible => cards # <<>>
        /\ (lastRender.by \in {"search", "apply"} /\ ~lastRender.threw /\ cards = <<>>) =>
              VisibleViews = {"Empty"}

----------------------------------------------------------------------------
(* The filter criteria as the specification words them *)

Range(seq) == {seq[i] : i \in 1..Len(seq)}

\* The replies of a thread; none when the field is absent.
RepliesOf(thread) == IF thread.replies = Null THEN <<>> ELSE thread.replies[1]

\* The texts a search looks into: title, keyword, username, and every
\* reply's text and (when present) user.
SearchedTexts(thread) ==
    {thread.post_title, thread.keyword, thread.username}
        \cup {reply.reply : reply \in Range(RepliesOf(thread))}
        \cup {reply.user : reply \in {r \in Range(RepliesOf(thread)) : r.user # Undefined}}

\* term is a case-insensitive substring of one of the searched texts.
ContainsTerm(thread, term) ==
    \E text \in SearchedTexts(thread) : includes(toLowerCase(text), toLowerCase(term))

\* Both instants of the date range are set.
RangeActive(filters) == filters.startDate # Null /\ filters.endDate # Null

\* Some reply has a timestamp that parses and lies in [startDate, endDate].
SomeReplyInRange(thread, filters) ==
    \E reply \in Range(RepliesOf(thread)) :
        /\ ParseReplyTime(reply.time) # Null
        /\ InstantLE(filters.startDate[1], ParseReplyTime(reply.time)[1])
        /\ InstantLE(ParseReplyTime(reply.time)[1], filters.endDate[1])

\* The list shows the result of a filter run that did not throw.
ShowsFilterResult == lastRender.by \in {"search", "apply"} /\ ~lastRender.threw

\* C2 (as claimed): with an active date range the result holds no thread
\* with zero replies (replies absent or empty).
C2_NoReplyThreadsExcluded ==
    (ShowsFilterResult /\ RangeActive(activeFilters)) =>
        \A thread \in Range(cards) : RepliesOf(thread) # <<>>

\* C2 (amended): with an active date range the date criterion is not applied
\* to a thread with zero replies: such a thread is in the result exactly
\* when it passes the search-term and keyword criteria.
C2_NoReplyThreadsSkipDateTest ==
    (ShowsFilterResult /\ RangeActive(activeFilters)) =>
        \A thread \in {t \in Range(allThreads) : RepliesOf(t) = <<>>} :
            thread \in Range(cards) <=>
                /\ ContainsTerm(thread, lastRender.term[1])
                /\ activeFilters.keywords # {} => thread.keyword \in activeFilters.keywords

\* A date range is active and the result holds a thread without replies,
\* while a thread with replies is left out by the date test alone.
C2_Witness ==
    /\ ShowsFilterResult
    /\ RangeActive(activeFilters)
    /\ \E thread \in Range(cards) : RepliesOf(thread) = <<>>
    /\ \E thread \in Range(allThreads) :
          /\ RepliesOf(thread) # <<>>
          /\ thread \notin Range(cards)
          /\ ContainsTerm(thread, lastRender.term[1])
          /\ activeFilters.keywords = {}

\* C8 (as claimed): with no keyword selected and no date range, the result
\* holds exactly the threads in which the typed term is a case-insensitive
\* substring of a searched text, and a reply without user raises no error.
C8_SearchMatchesTypedTerm ==
    (lastRender.by \in {"search", "apply"} /\ activeFilters.keywords = {}
        /\ ~RangeActive(activeFilters)) =>
        /\ ~lastRender.threw
        /\ Range(cards) = {thread \in Range(allThreads) : ContainsTerm(thread, searchInput)}

\* C8 (amended): the same with the typed term stripped of its leading and
\* trailing whitespace before the comparison.
C8_SearchMatchesTrimmedTerm ==
    (lastRender.by \in {"search", "apply"} /\ activeFilters.keywords = {}
        /\ ~RangeActive(activeFilters)) =>
        /\ ~lastRender.threw
        /\ Range(cards) =
              {thread \in Range(allThreads) : ContainsTerm(thread, trim(searchInput))}

\* A search for " A" found some threads and left out one whose only reply has
\* no user field.
C8_Witness ==
    /\ lastRender.by = "search"
    /\ ~lastRender.threw
    /\ searchInput = <<" ", "A">>
    /\ cards # <<>>
    /\ \E thread \in Range(allThreads) :
          /\ thread \notin Range(cards)
          /\ \E reply \in Range(RepliesOf(thread)) : reply.user = Undefined

\* C9: with a non-empty selected keyword set K, every thread of the result
\* has its keyword in K (exact, case-sensitive), and every thread whose
\* keyword is in K and that passes the other criteria is in the result.
C9_KeywordExactMember ==
    (ShowsFilterResult /\ activeFilters.keywords # {}) =>
        LET InK(thread) == thread.keyword \in activeFilters.keywords
            others == [activeFilters EXCEPT !.keywords = {}]
        IN /\ \A thread \in Range(cards) : InK(thread)
           /\ cards = SelectSeq(filterThreads(allThreads, lastRender.term[1], others), InK)

\* A keyword is selected, the result is not empty, and a thread whose keyword
\* differs from a selected one only by case is left out.
C9_Witness ==
    /\ ShowsFilterResult
    /\ activeFilters.keywords # {}
    /\ cards # <<>>
    /\ \E thread \in Range(allThreads) :
          /\ thread \notin Range(cards)
          /\ thread.keyword \notin activeFilters.keywords
          /\ toLowerCase(thread.keyword) \in
                {toLowerCase(k) : k \in activeFilters.keywords}

\* The search-term criterion: empty, or the term is found.
SearchCriterion(thread, term) == term = <<>> \/ ContainsTerm(thread, term)

\* The keyword criterion: nothing selected, or the keyword is selected.
KeywordCriterion(thread, filters) ==
    filters.keywords = {} \/ thread.keyword \in filters.keywords

\* The date criterion of the specification: no active range, or a reply in it.
DateCriterion(thread, filters) ==
    ~RangeActive(filters) \/ SomeReplyInRange(thread, filters)

\* C10 (as claimed): a thread is in the result iff it passes the search-term,
\* keyword and date-range criteria; an empty or absent criterion excludes
\* nothing.
C10_AllCriteria ==
    ShowsFilterResult =>
        \A thread \in Range(allThreads) :
            thread \in Range(cards) <=>
                /\ SearchCriterion(thread, lastRender.term[1])
                /\ KeywordCriterion(thread, activeFilters)
                /\ DateCriterion(thread, activeFilters)

\* C10 (amended): the same, the date-range criterion being applied only to
\* threads that have at least one reply.
C10_AllCriteriaDateOnReplies ==
    ShowsFilterResult =>
        \A thread \in Range(allThreads) :
            thread \in Range(cards) <=>
                /\ SearchCriterion(thread, lastRender.term[1])
                /\ KeywordCriterion(thread, activeFilters)
                /\ RepliesOf(thread) = <<>> \/ DateCriterion(thread, activeFilters)

\* All three criteria are active; one thread passes them all and another,
\* which matches the search term, does not.
C10_Witness ==
    /\ ShowsFilterResult
    /\ lastRender.term[1] # <<>>
    /\ activeFilters.keywords # {}
    /\ RangeActive(activeFilters)
    /\ \E thread \in Range(cards) : SomeReplyInRange(thread, activeFilters)
    /\ \E thread \in Range(allThreads) :
          /\ thread \notin Range(cards)
          /\ ContainsTerm(thread, lastRender.term[1])

\* C11: with an empty FilterState (empty search term, no keywords, no dates)
\* the filter result, and the list on display, is the whole loaded
\* collection: the same threads in the same order.
C11_EmptyFilterStateKeepsAll ==
    (ShowsFilterResult /\ lastRender.term[1] = <<>> /\ activeFilters = EmptyFilters) =>
        /\ filterThreads(allThreads, <<>>, EmptyFilters) = allThreads
        /\ cards = allThreads

\* Two different threads are loaded and a run with the empty FilterState
\* shows both, in the order of the collection.
C11_Witness ==
    /\ ShowsFilterResult
    /\ lastRender.term[1] = <<>>
    /\ activeFilters = EmptyFilters
    /\ Len(allThreads) = 2
    /\ allThreads[1] # allThreads[2]
    /\ cards = allThreads

\* sub is seq with some positions left out: the kept positions are all
\* different and in their original order.
IsSubsequence(sub, seq) ==
    \E f \in [1..Len(sub) -> 1..Len(seq)] :
        /\ \A i, j \in 1..Len(sub) : i < j => f[i] < f[j]
        /\ \A i \in 1..Len(sub) : sub[i] = seq[f[i]]

\* C12: after a successful load no search, apply, reset, selection, Back or
\* Escape changes the loaded collection, and every filter result (the one
\* computed and the one on display) is a subsequence of it without
\* duplicates, in the original relative order.
C12_CollectionNeverMutated ==
    [][loadState = "resolved" =>
          /\ allThreads' = allThreads
          /\ (lastRender'.by \in {"search", "apply"} /\ ~lastRender'.threw) =>
                /\ IsSubsequence(cards', allThreads)
                /\ cards' = filterThreads(allThreads, lastRender'.term[1], activeFilters')
      ]_vars

\* A filter run kept the second of two different threads, and the user has
\* opened it.
C12_Witness ==
    /\ loadState = "resolved"
    /\ ShowsFilterResult
    /\ Len(allThreads) = 2
    /\ allThreads[1] # allThreads[2]
    /\ cards = <<allThreads[2]>>
    /\ DetailVisible

\* C13: selecting a thread from List leads to Detail, Back from Detail leads
\* to List with the cards that were shown before the selection, in the same
\* order, and neither step changes the FilterState (search term, selected
\* keywords, start and end instants).
C13_DetailRoundTrip ==
    [][/\ (VisibleViews = {"List"} /\ \E i \in 1..Len(cards) : SelectThread(i)) =>
             /\ VisibleViews' = {"Detail"}
             /\ UNCHANGED <<cards, activeFilters, searchInput, selectedChips,
                            startDateInput, endDateInput>>
       /\ (VisibleViews = {"Detail"} /\ BackClick) =>
             /\ VisibleViews' = {"List"}
             /\ cards # <<>>
             /\ UNCHANGED <<cards, activeFilters, searchInput, selectedChips,
                            startDateInput, endDateInput>>
      ]_vars

\* A thread of a filtered list has been opened from List: the detail view
\* shows it, the cards of the filtered list are kept behind it, and Back can
\* be clicked.
C13_Witness ==
    /\ VisibleViews = {"Detail"}
    /\ ShowsFilterResult
    /\ cards # <<>>
    /\ Len(cards) < Len(allThreads)
    /\ currentThread # Null
    /\ currentThread[1] \in Range(cards)
    /\ activeFilters.keywords # {}
    /\ ENABLED BackClick

\* C14: Reset empties every component of the FilterState (search term,
\* selected keywords, start and end instants) and shows the whole collection,
\* so that a search issued right after it, with the search box as Reset left
\* it, again yields the whole collection.
C14_ResetEmptiesFilterState ==
    (loadState = "resolved" /\ lastRender.by = "reset" /\ ~lastRender.threw) =>
        /\ searchInput = <<>>
        /\ selectedChips = {}
        /\ startDateInput = Null
        /\ endDateInput = Null
        /\ activeFilters = EmptyFilters
        /\ cards = allThreads
        /\ filterThreads(allThreads, SearchTermOf(searchInput), activeFilters) = allThreads

\* C15: when a successful load completes the FilterState is empty and the
\* list on display is the filter result for that FilterState, also when the
\* user searched or applied filters while the load was in flight.
C15_LoadStartsFromEmptyFilterState ==
    (loadState = "resolved" /\ lastRender.by = "load") =>
        /\ searchInput = <<>>
        /\ activeFilters = EmptyFilters
        /\ cards = filterThreads(allThreads, SearchTermOf(searchInput), activeFilters)

\* C16: when the load succeeds the view becomes List if the loaded
\* collection is non-empty and Empty if it is empty, and the Loading
\* indicator is hidden, whatever the user did while the load was in flight.
C16_LoadSuccessView ==
    [][(loadState = "fetching" /\ loadState' = "resolved") =>
          /\ loadingHidden'
          /\ VisibleViews' = IF allThreads' # <<>> THEN {"List"} ELSE {"Empty"}
      ]_vars

\* A load has just delivered two threads to a user who had searched for
\* something while waiting: the list shows both.
C16_Witness ==
    /\ loadState = "resolved"
    /\ lastRender.by = "load"
    /\ Len(allThreads) = 2
    /\ cards = allThreads
    /\ VisibleViews = {"List"}
    /\ searchInput # <<>>

\* C17: the detail view is entered only from a visible list, and in every
\* reachable state where Detail is visible the selected thread is set and is
\* an element of the loaded collection.
C17_DetailShowsLoadedThread ==
    /\ [](DetailVisible =>
            /\ currentThread # Null
            /\ currentThread[1] \in Range(allThreads))
    /\ [][(~DetailVisible /\ DetailVisible') =>
            /\ ListVisible
            /\ currentThread'[1] \in Range(cards)]_vars

\* The detail view shows the second thread of the loaded collection, opened
\* from a filtered list.
C17_Witness ==
    /\ DetailVisible
    /\ Len(allThreads) = 2
    /\ currentThread = Some(allThreads[2])
    /\ allThreads[1] # allThreads[2]

\* C18: the load is started once and never retried: once the Loading
\* indicator has been hidden the load has settled, and no user event or
\* failure shows Loading again or starts another fetch.
C18_LoadNeverRestarts ==
    [][loadingHidden =>
          /\ loadState # "fetching"
          /\ loadState' = loadState
          /\ loadingHidden'
      ]_vars

\* The load has failed and the user has since run a search or applied or
\* reset the filters.
C18_Witness ==
    /\ loadState = "rejected"
    /\ loadingHidden
    /\ errorMessage
    /\ lastRender.by \in {"search", "apply", "reset"}

\* C19: applying the same FilterState twice in a row (same search term, same
\* selected keywords, same start and end dates) yields the same filter
\* result and the same view state both times: in the state an Apply leaves,
\* a second run of applyFilters on the untouched controls builds the same
\* activeFilters, computes the same result and leaves the view as it is.
C19_ApplyIsIdempotent ==
    [][ApplyClick(searchInput', selectedChips',
                  [start |-> startDateInput', end |-> endDateInput']) =>
              LET filters == FiltersFromControls(selectedChips', startDateInput',
                                                 endDateInput')
                  again == performSearch(View', allThreads', filters, searchInput')
              IN /\ filters = activeFilters'
                 /\ filterThreads(allThreads', SearchTermOf(searchInput'), filters)
                        = filterThreads(allThreads, SearchTermOf(searchInput'), activeFilters')
                 /\ again.threw = lastRender'.threw
                 /\ again.view = View'
      ]_vars

\* An Apply with a search term, a keyword and a date range has kept one
\* thread of two.
C19_Witness ==
    /\ lastRender.by = "apply"
    /\ ~lastRender.threw
    /\ lastRender.term[1] # <<>>
    /\ activeFilters.keywords # {}
    /\ RangeActive(activeFilters)
    /\ Len(allThreads) = 2
    /\ Len(cards) = 1
    /\ VisibleViews = {"List"}

\* The reply's time is a string of the form "<y>年<mo>月<d>日 <h>:<mi>:<s>"
\* naming a local time inside [startDate, endDate].
ReplyTimeParsesInRange(reply, filters) ==
    /\ reply.time.kind = "stamp"
    /\ LET instant == NewDate(reply.time.y, reply.time.mo - 1, reply.time.d,
                              reply.time.h, reply.time.mi, reply.time.s)
       IN InstantLE(filters.startDate[1], instant) /\ InstantLE(instant, filters.endDate[1])

\* C20: with an active date range, a thread that has replies passes the date
\* criterion iff at least one reply has a timestamp that parses and lies in
\* the range; a reply whose time is missing or does not match the pattern
\* counts as non-matching and never makes the filter run fail, so a thread
\* whose replies all fail to parse is excluded.
C20_UnparseableTimesDoNotMatch ==
    (lastRender.by \in {"search", "apply"} /\ RangeActive(activeFilters)) =>
        /\ ~lastRender.threw
        /\ \A thread \in {t \in Range(allThreads) : RepliesOf(t) # <<>>} :
              /\ thread \in Range(cards) <=>
                    /\ SearchCriterion(thread, lastRender.term[1])
                    /\ KeywordCriterion(thread, activeFilters)
                    /\ \E reply \in Range(RepliesOf(thread)) :
                          ReplyTimeParsesInRange(reply, activeFilters)
              /\ (\A reply \in Range(RepliesOf(thread)) : reply.time.kind # "stamp") =>
                    thread \notin Range(cards)

\* With a date range applied, a thread whose only reply has a time that does
\* not match the pattern is left out, and a thread with a reply without time
\* and a reply inside the range is shown.
C20_Witness ==
    /\ ShowsFilterResult
    /\ RangeActive(activeFilters)
    /\ \E thread \in Range(allThreads) :
          /\ RepliesOf(thread) # <<>>
          /\ \A reply \in Range(RepliesOf(thread)) : reply.time.kind = "text"
          /\ SearchCriterion(thread, lastRender.term[1])
          /\ KeywordCriterion(thread, activeFilters)
          /\ thread \notin Range(cards)
    /\ \E thread \in Range(cards) :
          /\ \E reply \in Range(RepliesOf(thread)) : reply.time.kind = "undefined"
          /\ \E reply \in Range(RepliesOf(thread)) :
                ReplyTimeParsesInRange(reply, activeFilters)

\* A field of a thread read as text: the empty string when it is missing.
FieldText(field) == IF field = Undefined THEN <<>> ELSE field

\* C21: when a thread lacks post_title, keyword or username, a search with a
\* non-empty term raises no error: the missing field counts as the empty
\* string and the search completes with a result for the whole collection.
C21_MissingFieldsSearch ==
    (/\ lastRender.by = "search"
     /\ lastRender.term[1] # <<>>
     /\ \A thread \in Range(allThreads) : ~DetailThrows(thread)) =>
        /\ ~lastRender.threw
        /\ Range(cards) =
              {thread \in Range(allThreads) :
                  \E field \in {thread.post_title, thread.keyword, thread.username} :
                      includes(toLowerCase(FieldText(field)), lastRender.term[1])}

\* Calendar date a is on or before calendar date b.
DayLE(a, b) == a.y * 10000 + a.mo * 100 + a.d <= b.y * 10000 + b.mo * 100 + b.d

\* C22: a date range given as calendar dates is inclusive on both ends of
\* whole days: a reply passes iff its calendar day is on or after the start
\* date and on or before the end date, from 00:00:00 on the start date to
\* 23:59:59 on the end date.
C22_WholeDaysInclusive ==
    (/\ lastRender.by = "apply"
     /\ ~lastRender.threw
     /\ startDateInput # Null
     /\ endDateInput # Null) =>
        \A thread \in {t \in Range(allThreads) : RepliesOf(t) # <<>>} :
            thread \in Range(cards) <=>
                /\ KeywordCriterion(thread, activeFilters)
                /\ \E reply \in Range(RepliesOf(thread)) :
                      /\ reply.time.kind = "stamp"
                      /\ DayLE(startDateInput[1], reply.time)
                      /\ DayLE(reply.time, endDateInput[1])

\* The local calendar fields <<y, mo, d, h, mi, s>> of an instant, month
\* 1-indexed (getFullYear, getMonth + 1, getDate, getHours, ...).
LocalFields(instant) ==
    LET local == instant.s + tz
        secs == local % SecondsPerDay
        z == (local \div SecondsPerDay) + 719468
        era == z \div 146097
        doe == z - era * 146097
        yoe == (doe - (doe \div 1460) + (doe \div 36524) - (doe \div 146096)) \div 365
        doy == doe - (365 * yoe + (yoe \div 4) - (yoe \div 100))
        mp == (5 * doy + 2) \div 153
        d == doy - ((153 * mp + 2) \div 5) + 1
        m == IF mp < 10 THEN mp + 3 ELSE mp - 9
        y == yoe + era * 400 + (IF m <= 2 THEN 1 ELSE 0)
    IN <<y, m, d, secs \div 3600, (secs % 3600) \div 60, secs % 60>>

\* f comes before g in the lexicographic order of field tuples.
TupleLess(f, g) ==
    \E k \in 1..6 : f[k] < g[k] /\ \A j \in 1..(k - 1) : f[j] = g[j]

\* The reply.time values of the loaded collection.
ReplyTimes ==
    UNION {{reply.time : reply \in Range(RepliesOf(thread))} : thread \in Range(allThreads)}

\* The field tuples whose reply.time string is in the loaded collection.
GivenTuples == {f \in FieldTuples : TimeText(TimeString(f)) \in ReplyTimes}

ParsedTuple(f) == ParseReplyTime(TimeText(TimeString(f)))

\* C23: once a date range has been applied, every reply.time string of the
\* form "Y<nian>M<yue>D<ri> h:m:s" was parsed to the instant whose local
\* fields are exactly Y, M (1-indexed), D, h, m, s, the instants order the
\* same way as the field tuples, and a string that does not match the
\* pattern gave no instant.
C23_ParserKeepsFieldsAndOrder ==
    (/\ lastRender.by = "apply"
     /\ RangeActive(activeFilters)) =>
        /\ \A f \in GivenTuples :
              /\ ParsedTuple(f) # Null
              /\ LocalFields(ParsedTuple(f)[1]) = f
        /\ \A f, g \in GivenTuples :
              (ParsedTuple(f) # Null /\ ParsedTuple(g) # Null) =>
                  (TupleLess(f, g) <=> ParsedTuple(f)[1].s < ParsedTuple(g)[1].s)
        /\ \A text \in UnmatchedTexts :
              TimeText(text) \in ReplyTimes => ParseReplyTime(TimeText(text)) = Null

\* C24: if the load settles, with data or with any failure, #loading is
\* eventually hidden and stays hidden; while the fetch is pending #loading
\* is never hidden, and no step other than the settling of the load changes
\* it (no timeout, no cancellation).
C24_LoadingHiddenOnceSettled ==
    /\ (<>(loadState # "fetching")) => <>[]loadingHidden
    /\ [](loadState = "fetching" => ~loadingHidden)
    /\ [][loadingHidden' # loadingHidden =>
              (loadState = "fetching" /\ loadState' # "fetching")]_vars

\* The load failed after the data had arrived, #loading is hidden, and the
\* user has searched since.
C24_Witness ==
    /\ loadState = "rejected"
    /\ allThreads # <<>>
    /\ errorMessage
    /\ loadingHidden
    /\ lastRender.by = "search"

\* C25: in every reachable state a thread is selected (currentThread is not
\* null) if and only if the detail view is visible.
C25_SelectedIffDetailVisible == (currentThread # Null) <=> DetailVisible

====
